---------------------------- MODULE Spec2Model ----------------------------
(***************************************************************************)
(* A model of uMCTS: the arena allocator, the search-tree node with its    *)
(* two playout algorithms and the UCB policy, the self-play driver and the *)
(* 3x3 example game.                                                       *)
(*                                                                         *)
(* The specifications share the variables:                                 *)
(*   Spec      rollouts on a tree rooted at a late-game position, drawing  *)
(*             from an arbitrary random source;                            *)
(*   SpecPlay  play_vs_random from the empty board with a seeded engine    *)
(*             (SpecPlayFair: the same, with the loop always going on);    *)
(*   SpecArena Arena<T> alone, for a small element type;                   *)
(*   SpecGame  the game's counting and validity functions on every pair of *)
(*             9-bit masks;                                                *)
(*   SpecScan  the two move scans of a node on every board occupancy and   *)
(*             every set of tried moves.                                   *)
(***************************************************************************)
EXTENDS Integers, Sequences, FiniteSets

VARIABLES
    arena,          \* Arena: the block list and the count of storage regions
    tree,           \* Node *tree: the current root
    rng,            \* the random source (0: an arbitrary RandomGen)
    pc,             \* position of the caller
    ncalls,         \* calls made so far (in play_vs_random: the loop's i)
    state_history,  \* play_vs_random: states visited
    move_history,   \* play_vs_random: moves taken
    call,           \* the most recent ucb_rollout call and what it returned
    gstate,         \* SpecGame: a TicTacToe value
    scan,           \* SpecGame: the most recent random_move scan
    issued          \* SpecArena: the pointers alloc has returned, with the values stored

vars == <<arena, tree, rng, pc, ncalls, state_history, move_history, call,
          gstate, scan, issued>>

---------------------------------------------------------------------------
(* Bounds of the model.                                                    *)

\* Arena's template parameter NBlock (4096 by default), instantiated small
\* so that blocks fill up and new blocks are prepended.
NBlock == 3

\* Rollouts issued from one root in Spec.
MaxRollouts == 6

\* The driver's rollout budget n_rollouts (at least n_moves()).
NRollouts == 9

\* Seeds of the engine in SpecPlay: 1..MaxSeed.
MaxSeed == 40

\* alloc calls in SpecArena.
MaxAllocs == 7

---------------------------------------------------------------------------
(* WinState.                                                               *)

WIN == 1
TIE == 0
LOSS == -1
NONE == -2

\* The value 0xFFFFFFFF the scans return past a failed assert(false); never a
\* move index.
NOMOVE == -1

---------------------------------------------------------------------------
(* Bit operations on unsigned values below 2^31.                           *)

RECURSIVE BitAnd(_, _)
BitAnd(a, b) ==
    IF a = 0 \/ b = 0 THEN 0
    ELSE (a % 2) * (b % 2) + 2 * BitAnd(a \div 2, b \div 2)

RECURSIVE BitOr(_, _)
BitOr(a, b) ==
    IF a = 0 THEN b
    ELSE IF b = 0 THEN a
    ELSE (IF a % 2 = 1 \/ b % 2 = 1 THEN 1 ELSE 0) + 2 * BitOr(a \div 2, b \div 2)

\* 1 << k
Shl1(k) == 2 ^ k

\* ((a * 0x1010101) mod 2^32) >> 24, by 16-bit limbs: 0x1010101 = 257 * 2^16 + 257.
MulShr24(a) ==
    LET lo == a % 65536
        hi == a \div 65536
        hi16 == ((lo * 257) \div 65536 + lo * 257 + hi * 257) % 65536
    IN  hi16 \div 256

\* bitcount with the last line's mask applied to (v >> 4) alone
bitcount_mask_before_add(v) ==
    LET v1 == v - BitAnd(v \div 2, 1431655765)
        v2 == BitAnd(v1, 858993459) + BitAnd(v1 \div 4, 858993459)
        v3 == v2 + BitAnd(v2 \div 16, 252645135)
    IN  MulShr24(v3)

bitcount(v) ==
    LET v1 == v - BitAnd(v \div 2, 1431655765)
        v2 == BitAnd(v1, 858993459) + BitAnd(v1 \div 4, 858993459)
        v3 == BitAnd(v2 + (v2 \div 16), 252645135)
    IN  MulShr24(v3)

---------------------------------------------------------------------------
(* TicTacToe: xos[1], xos[2] are the code's xos[0], xos[1].                *)

n_moves == 9

Moves == 0 .. (n_moves - 1)

\* TicTacToe(): the initial state
Game == [xos |-> <<0, 0>>, iplayer |-> 0]

winning_states == <<7, 56, 448, 73, 146, 292, 273, 84>>

is_win(state) ==
    \E k \in 1 .. Len(winning_states) :
        BitAnd(winning_states[k], state) = winning_states[k]

player_turn(g) == g.iplayer

winner(g) ==
    LET w0 == is_win(g.xos[1])
        w1 == is_win(g.xos[2])
    IN  IF ~(w0 \/ w1) /\ BitOr(g.xos[1], g.xos[2]) = 511 THEN TIE
        ELSE IF w0 THEN WIN
        ELSE IF w1 THEN LOSS
        ELSE NONE

n_valid_moves(g) == 9 - bitcount(BitOr(g.xos[1], g.xos[2]))

is_valid(g, mv) == BitAnd(Shl1(mv), BitOr(g.xos[1], g.xos[2])) = 0

move(g, mv) ==
    [xos |-> [g.xos EXCEPT ![g.iplayer + 1] = BitOr(@, Shl1(mv))],
     iplayer |-> (g.iplayer + 1) % 2]

---------------------------------------------------------------------------
(* std::vector<T> as the arena uses it.  A vector is its storage region    *)
(* (base; 0: none), its capacity and its elements; a pointer to an element *)
(* is <<base, index>>, and it designates that element for as long as the   *)
(* vector keeps the region.  Growing past the capacity moves the elements  *)
(* to a fresh region and frees the old one.                                *)

nullptr == <<0, 0>>

Vector == [base |-> 0, cap |-> 0, elems |-> <<>>]

reserve(vec, n, fresh) ==
    IF n > vec.cap THEN [vec EXCEPT !.base = fresh, !.cap = n] ELSE vec

emplace_back(vec, v, fresh) ==
    IF Len(vec.elems) < vec.cap
    THEN [vec EXCEPT !.elems = Append(@, v)]
    ELSE [base |-> fresh,
          cap |-> IF vec.cap = 0 THEN 1 ELSE 2 * vec.cap,
          elems |-> Append(vec.elems, v)]

---------------------------------------------------------------------------
(* Arena<T, NBlock>: blocks[1] is blocks.front(); regions counts the       *)
(* storage regions handed out so far, so region numbers are never reused.  *)

Arena == [blocks |-> <<>>, regions |-> 0]

\* FrontBlock without the reserve: the new block grows as it is filled
FrontBlock_without_reserve(a) ==
    IF a.blocks = <<>> \/ Len(a.blocks[1].elems) = NBlock
    THEN [blocks |-> <<Vector>> \o a.blocks, regions |-> a.regions]
    ELSE a

\* blocks.emplace_front(); blocks.front().reserve(NBlock) when needed
FrontBlock(a) ==
    IF a.blocks = <<>> \/ Len(a.blocks[1].elems) = NBlock
    THEN [blocks |-> <<reserve(Vector, NBlock, a.regions + 1)>> \o a.blocks,
          regions |-> a.regions + 1]
    ELSE a

\* alloc: the arena afterwards and the pointer returned
alloc(a, v) ==
    LET a1 == FrontBlock(a)
        front == emplace_back(a1.blocks[1], v, a1.regions + 1)
        a2 == [blocks |-> [a1.blocks EXCEPT ![1] = front],
               regions |-> IF front.base = a1.blocks[1].base
                           THEN a1.regions ELSE a1.regions + 1]
    IN  [arena |-> a2, ptr |-> <<front.base, Len(front.elems)>>]

clear(a) == [a EXCEPT !.blocks = <<>>]

\* Every address that designates a live element.
Pointers(a) ==
    UNION {{<<a.blocks[b].base, i>> : i \in 1 .. Len(a.blocks[b].elems)} :
                b \in 1 .. Len(a.blocks)}

IsLive(a, p) == p \in Pointers(a)

BlockOf(a, p) == CHOOSE b \in 1 .. Len(a.blocks) : a.blocks[b].base = p[1]

\* *p
Deref(a, p) == a.blocks[BlockOf(a, p)].elems[p[2]]

\* *p = v
Store(a, p, v) == [a EXCEPT !.blocks[BlockOf(a, p)].elems[p[2]] = v]

---------------------------------------------------------------------------
(* The random source.  rng = 0 stands for an arbitrary RandomGen: every    *)
(* draw may return any value of its range.  rng > 0 is the state of        *)
(* std::default_random_engine as main seeds it (minstd_rand0:              *)
(* x' = 16807 x mod 2^31 - 1), and uniform_int_distribution<uint>(1, n)    *)
(* draws from it by scaling with rejection.                                *)

\* 16807 * x mod 2147483647 without leaving 32 bits (Schrage)
EngineNext(x) ==
    LET t == 16807 * (x % 127773) - 2836 * (x \div 127773)
    IN  IF t < 0 THEN t + 2147483647 ELSE t

\* prng.seed(seed)
EngineSeed(seed) == IF seed % 2147483647 = 0 THEN 1 ELSE seed % 2147483647

RECURSIVE DrawBelow(_, _)
DrawBelow(x, past) ==
    LET x1 == EngineNext(x)
    IN  IF x1 - 1 >= past THEN DrawBelow(x1, past) ELSE [raw |-> x1 - 1, rng |-> x1]

\* dist(rng) for dist(1, n): the possible (value, source afterwards) pairs
Dist(r, n) ==
    IF r = 0
    THEN {[val |-> k, rng |-> 0] : k \in 1 .. n}
    ELSE LET scaling == 2147483645 \div n
             d == DrawBelow(r, n * scaling)
         IN  {[val |-> d.raw \div scaling + 1, rng |-> d.rng]}

---------------------------------------------------------------------------
(* fastlog, in fixed point.  The argument X is x * 10^4; results are in    *)
(* units of 10^-5.  The float's exponent and mantissa are recovered by     *)
(* normalising: x / 10^7 = (Xn / 781250000) * 2^(-s-7) with Xn = X * 2^s   *)
(* in [2^30, 2^31), and Xn / 7812.5 is the ratio in units of 10^-5.        *)

RECURSIVE Normalise(_, _)
Normalise(X, s) ==
    IF X >= 1073741824 THEN [X |-> X, s |-> s] ELSE Normalise(2 * X, s + 1)

fastlog2(X) ==
    LET nz == Normalise(X, 0)
        F == (nz.X \div 15625) * 2 + ((nz.X % 15625) * 2) \div 15625
        e == IF F < 200000 THEN 0 - nz.s - 7 ELSE 0 - nz.s - 6
        f == IF F < 200000 THEN F ELSE F \div 2        \* mantissa in [1, 2)
        y == (e + 127) * 100000 + (f - 100000)         \* vx.i * 2^-23
        \* 1.498030302 * mx.f, mx.f = f / 2
        t2 == (f * 7490) \div 10000 + (f * 15) \div 1000000
        \* 1.72587999 / (0.3520887068 + mx.f), by long division
        D == 35209 + f \div 2
        q1 == 172588 \div D
        r1 == 172588 % D
        q2 == (r1 * 1000) \div D
        r2 == (r1 * 1000) % D
        q3 == (r2 * 100) \div D
        t3 == q1 * 100000 + q2 * 100 + q3
    IN  y - 12422551 - t2 - t3

\* fastlog without the radix correction: the logarithm of x / log_radix
fastlog_without_radix(X) ==
    LET S == fastlog2(X)
    IN  0 - (((0 - S) \div 1000) * 69315) \div 100

\* 0.69314718 * (fastlog2(x / log_radix) + log_of_radix)
fastlog(X) ==
    LET S == fastlog2(X) + 2325350
    IN  ((S \div 1000) * 69315) \div 100 + ((S % 1000) * 69315) \div 100000

RECURSIVE ISqrt(_, _, _)
ISqrt(v, lo, hi) ==
    IF hi - lo <= 1 THEN lo
    ELSE LET mid == (lo + hi) \div 2
         IN  IF mid * mid <= v THEN ISqrt(v, mid, hi) ELSE ISqrt(v, lo, mid)

\* sqrtf(v) for v in units of 10^-8, in units of 10^-4
sqrtf(v) == ISqrt(v, 0, 46341)

---------------------------------------------------------------------------
(* Node<Game>.                                                             *)

Node(state) ==
    [state |-> state,
     tot_tries |-> 0,
     children |-> [i \in Moves |-> nullptr],
     tries |-> [i \in Moves |-> 0],
     wins |-> [i \in Moves |-> 0]]

is_leaf(node) == winner(node.state) # NONE

is_move_explored(node, mv) == node.children[mv] # nullptr

child(node, mv) == node.children[mv]

\* the test of the scans without state.is_valid(i)
Unplayed_without_validity(node, i) == node.tries[i] = 0

Unplayed(node, i) == node.tries[i] = 0 /\ is_valid(node.state, i)

n_unplayed_moves(node) == Cardinality({i \in Moves : Unplayed(node, i)})

\* the scan of random_move from index i on, count qualifying moves seen so far
RECURSIVE ScanValid(_, _, _, _)
ScanValid(g, imove, i, count) ==
    IF i = n_moves THEN NOMOVE
    ELSE LET c == count + (IF is_valid(g, i) THEN 1 ELSE 0)
         IN  IF c = imove THEN i ELSE ScanValid(g, imove, i + 1, c)

\* the scan of random_unplayed_move
RECURSIVE ScanUnplayed(_, _, _, _)
ScanUnplayed(node, imove, i, count) ==
    IF i = n_moves THEN NOMOVE
    ELSE LET c == count + (IF Unplayed(node, i) THEN 1 ELSE 0)
         IN  IF c = imove THEN i ELSE ScanUnplayed(node, imove, i + 1, c)

random_move(node, r) ==
    {[move |-> ScanValid(node.state, d.val, 0, 0), rng |-> d.rng, draw |-> d.val] :
        d \in Dist(r, n_valid_moves(node.state))}

\* random_unplayed_move scanning the valid moves, tried or not
random_unplayed_move_any_valid(node, r) ==
    {[move |-> ScanValid(node.state, d.val, 0, 0), rng |-> d.rng, draw |-> d.val] :
        d \in Dist(r, n_unplayed_moves(node))}

random_unplayed_move(node, r) ==
    {[move |-> ScanUnplayed(node, d.val, 0, 0), rng |-> d.rng, draw |-> d.val] :
        d \in Dist(r, n_unplayed_moves(node))}

\* _update without ++tot_tries
update_without_tot_tries(node, mv, delta) ==
    [node EXCEPT !.tries[mv] = @ + 1,
                 !.wins[mv] = @ + delta]

\* _update without ++tries[move]
update_without_tries(node, mv, delta) ==
    [node EXCEPT !.tot_tries = @ + 1,
                 !.wins[mv] = @ + delta]

\* _update scoring a decided game two points
update_double_wins(node, mv, delta) ==
    [node EXCEPT !.tries[mv] = @ + 1,
                 !.tot_tries = @ + 1,
                 !.wins[mv] = @ + 2 * delta]

_update(node, mv, delta) ==
    [node EXCEPT !.tries[mv] = @ + 1,
                 !.tot_tries = @ + 1,
                 !.wins[mv] = @ + delta]

---------------------------------------------------------------------------
(* The UCB policy.  Scores are in units of 10^-4; the fixed-point value is *)
(* within 3 units of the float the code computes, so where two scores are  *)
(* closer than that either order is allowed.                               *)

\* the lambda ucb of ucb_move
ucb(node, mv) ==
    LET flip == IF player_turn(node.state) = 0 THEN 1 ELSE -1
        mean == (flip * node.wins[mv] * 10000) \div node.tries[mv]
        L == fastlog(10000 * node.tot_tries + 1)
    IN  mean + sqrtf((2 * L * 1000) \div node.tries[mv])

\* sqrtf of a negative value is NaN, and no comparison with NaN is true
UcbIsNaN(node) == fastlog(10000 * node.tot_tries + 1) < 0

\* children[i]->state.winner() is a win for the player to move
WinningChild(a, node, i) ==
    LET w == winner(Deref(a, node.children[i]).state)
    IN  \/ player_turn(node.state) = 0 /\ w = WIN
        \/ player_turn(node.state) = 1 /\ w = LOSS

SameStats(node, i, j) ==
    node.tries[i] = node.tries[j] /\ node.wins[i] = node.wins[j]

\* i can be the first index of the strictly greatest score
CanBeMax(node, valid, i) ==
    \A j \in valid \ {i} :
        IF SameStats(node, i, j) THEN i < j
        ELSE ucb(node, j) <= ucb(node, i) + 3

\* ucb_move without the early exit: the greatest score decides alone
ucb_move_without_early_exit(a, node) ==
    LET valid == {i \in Moves : is_valid(node.state, i)}
    IN  IF valid = {} \/ UcbIsNaN(node) THEN {NOMOVE}
        ELSE {i \in valid : CanBeMax(node, valid, i)}

\* ucb_move, called with n_unplayed_moves() = 0: the moves it can return
ucb_move(a, node) ==
    LET valid == {i \in Moves : is_valid(node.state, i)}
        winning == {i \in valid : WinningChild(a, node, i)}
    IN  IF winning # {}
        THEN {CHOOSE i \in winning : \A j \in winning : i <= j}
        ELSE IF valid = {} \/ UcbIsNaN(node) THEN {NOMOVE}
        ELSE {i \in valid : CanBeMax(node, valid, i)}

---------------------------------------------------------------------------
(* The playouts.  Each returns the set of its possible outcomes: the arena *)
(* afterwards, the random source afterwards and the WinState returned.     *)

RECURSIVE random_rollout(_, _, _)

\* random_rollout simulating below the first new node without keeping the
\* nodes: the playout's result is recorded, its path is not linked
random_rollout_unlinked(a, r, this) ==
    LET self == Deref(a, this)
        w == winner(self.state)
    IN  IF w # NONE
        THEN {[arena |-> Store(a, this, [self EXCEPT !.tot_tries = 1]),
               rng |-> r, winner |-> w]}
        ELSE UNION {
               LET new == alloc(a, Node(move(self.state, m.move)))
               IN  {[arena |-> Store(new.arena, this,
                                   _update([Deref(new.arena, this) EXCEPT
                                               !.children[m.move] = new.ptr],
                                           m.move, res.winner)),
                     rng |-> res.rng,
                     winner |-> res.winner] :
                       res \in random_rollout(new.arena, m.rng, new.ptr)} :
               m \in random_unplayed_move(self, r)}

\* random_rollout playing the move on this->state itself instead of on a copy
random_rollout_moves_in_place(a, r, this) ==
    LET self == Deref(a, this)
        w == winner(self.state)
    IN  IF w # NONE
        THEN {[arena |-> Store(a, this, [self EXCEPT !.tot_tries = 1]),
               rng |-> r, winner |-> w]}
        ELSE UNION {
               LET new == alloc(a, Node(move(self.state, m.move)))
               IN  {[arena |-> Store(res.arena, this,
                                   _update([Deref(res.arena, this) EXCEPT
                                               !.state = move(self.state, m.move),
                                               !.children[m.move] = new.ptr],
                                           m.move, res.winner)),
                     rng |-> res.rng,
                     winner |-> res.winner] :
                       res \in random_rollout(new.arena, m.rng, new.ptr)} :
               m \in random_unplayed_move(self, r)}

\* random_rollout returning the outcome from the point of view of the player
\* who moved (negated at each level)
random_rollout_negamax(a, r, this) ==
    LET self == Deref(a, this)
        w == winner(self.state)
    IN  IF w # NONE
        THEN {[arena |-> Store(a, this, [self EXCEPT !.tot_tries = 1]),
               rng |-> r, winner |-> w]}
        ELSE UNION {
               LET new == alloc(a, Node(move(self.state, m.move)))
               IN  {[arena |-> Store(res.arena, this,
                                   _update([Deref(res.arena, this) EXCEPT
                                               !.children[m.move] = new.ptr],
                                           m.move, res.winner)),
                     rng |-> res.rng,
                     winner |-> 0 - res.winner] :
                       res \in random_rollout(new.arena, m.rng, new.ptr)} :
               m \in random_unplayed_move(self, r)}

\* random_rollout stopping only when the board is full
random_rollout_past_the_end(a, r, this) ==
    LET self == Deref(a, this)
        w == winner(self.state)
    IN  IF n_valid_moves(self.state) = 0
        THEN {[arena |-> Store(a, this, [self EXCEPT !.tot_tries = 1]),
               rng |-> r, winner |-> w]}
        ELSE UNION {
               LET new == alloc(a, Node(move(self.state, m.move)))
               IN  {[arena |-> Store(res.arena, this,
                                   _update([Deref(res.arena, this) EXCEPT
                                               !.children[m.move] = new.ptr],
                                           m.move, res.winner)),
                     rng |-> res.rng,
                     winner |-> res.winner] :
                       res \in random_rollout(new.arena, m.rng, new.ptr)} :
               m \in random_unplayed_move(self, r)}

\* random_rollout without children[move] = node: the try is counted, the child
\* is not linked
random_rollout_without_link(a, r, this) ==
    LET self == Deref(a, this)
        w == winner(self.state)
    IN  IF w # NONE
        THEN {[arena |-> Store(a, this, [self EXCEPT !.tot_tries = 1]),
               rng |-> r, winner |-> w]}
        ELSE UNION {
               LET new == alloc(a, Node(move(self.state, m.move)))
               IN  {[arena |-> Store(res.arena, this,
                                   _update(Deref(res.arena, this),
                                           m.move, res.winner)),
                     rng |-> res.rng,
                     winner |-> res.winner] :
                       res \in random_rollout(new.arena, m.rng, new.ptr)} :
               m \in random_unplayed_move(self, r)}

random_rollout(a, r, this) ==
    LET self == Deref(a, this)
        w == winner(self.state)
    IN  IF w # NONE
        THEN {[arena |-> Store(a, this, [self EXCEPT !.tot_tries = 1]),
               rng |-> r, winner |-> w]}
        ELSE UNION {
               LET new == alloc(a, Node(move(self.state, m.move)))
               IN  {[arena |-> Store(res.arena, this,
                                   _update([Deref(res.arena, this) EXCEPT
                                               !.children[m.move] = new.ptr],
                                           m.move, res.winner)),
                     rng |-> res.rng,
                     winner |-> res.winner] :
                       res \in random_rollout(new.arena, m.rng, new.ptr)} :
               m \in random_unplayed_move(self, r)}

RECURSIVE ucb_rollout(_, _, _)

\* ucb_rollout leaving the terminal case to random_rollout
ucb_rollout_leaf_to_random(a, r, this) ==
    LET self == Deref(a, this)
    IN  IF winner(self.state) # NONE \/ n_unplayed_moves(self) > 0
        THEN random_rollout(a, r, this)
        ELSE UNION {
               {[arena |-> Store(res.arena, this,
                                   _update(Deref(res.arena, this), mv, res.winner)),
                 rng |-> res.rng,
                 winner |-> res.winner] :
                   res \in ucb_rollout(a, r, self.children[mv])} :
               mv \in ucb_move(a, self)}

ucb_rollout(a, r, this) ==
    LET self == Deref(a, this)
        w == winner(self.state)
    IN  IF w # NONE THEN {[arena |-> a, rng |-> r, winner |-> w]}
        ELSE IF n_unplayed_moves(self) > 0 THEN random_rollout(a, r, this)
        ELSE UNION {
               {[arena |-> Store(res.arena, this,
                                   _update(Deref(res.arena, this), mv, res.winner)),
                 rng |-> res.rng,
                 winner |-> res.winner] :
                   res \in ucb_rollout(a, r, self.children[mv])} :
               mv \in ucb_move(a, self)}

---------------------------------------------------------------------------
(* Spec: ucb_rollout called again and again on a tree whose root is a      *)
(* position of the game reached by one of a few lines of play, with an     *)
(* arbitrary random source; the caller may step down to an explored child  *)
(* (as play_vs_random does) and go on from there.                          *)

\* Lines of play from the empty board; the root is the position after one.
Openings ==
    {<<0, 4, 8, 2, 6, 3>>,            \* X to move, three cells free
     <<4, 0, 8, 2, 1, 7, 3>>,         \* O to move, two cells free
     <<4, 0, 8, 2, 1, 7, 3, 5>>,      \* X to move, one cell free
     <<0, 3, 1, 4, 2>>}               \* X has won: a terminal root

RECURSIVE Play(_, _)
Play(g, line) ==
    IF line = <<>> THEN g ELSE Play(move(g, Head(line)), Tail(line))

NoCall == [node |-> nullptr, ret |-> NONE]

NoScan == [move |-> NOMOVE]

Init ==
    /\ \E line \in Openings :
          LET root == alloc(Arena, Node(Play(Game, line)))
          IN  arena = root.arena /\ tree = root.ptr
    /\ rng = 0
    /\ pc = "rollouts"
    /\ ncalls = 0
    /\ state_history = <<>>
    /\ move_history = <<>>
    /\ call = NoCall
    /\ gstate = Game
    /\ scan = NoScan
    /\ issued = <<>>

\* tree->ucb_rollout(rng, arena)
Rollout ==
    /\ pc = "rollouts"
    /\ ncalls < MaxRollouts
    /\ \E res \in ucb_rollout(arena, rng, tree) :
          /\ arena' = res.arena
          /\ rng' = res.rng
          /\ call' = [node |-> tree, ret |-> res.winner]
    /\ ncalls' = ncalls + 1
    /\ UNCHANGED <<tree, pc, state_history, move_history, gstate, scan, issued>>

\* tree = tree->child(move), for an explored move
Descend ==
    /\ pc = "rollouts"
    /\ \E mv \in Moves :
          /\ is_move_explored(Deref(arena, tree), mv)
          /\ tree' = child(Deref(arena, tree), mv)
    /\ UNCHANGED <<arena, rng, pc, ncalls, state_history, move_history, call,
                   gstate, scan, issued>>

Next == Rollout \/ Descend

Spec == Init /\ [][Next]_vars

---------------------------------------------------------------------------
(* SpecPlay: play_vs_random<TicTacToe>(prng, NRollouts) with the engine    *)
(* seeded as main does.  One step is one iteration of the rollout loop,    *)
(* one move of either player, or the return.  A failed assertion aborts:   *)
(* pc = "abort".                                                           *)

InitPlay ==
    /\ LET root == alloc(Arena, Node(Game))
       IN  /\ arena = root.arena
           /\ tree = root.ptr
           /\ state_history = <<Deref(root.arena, root.ptr).state>>
    /\ \E seed \in 1 .. MaxSeed : rng = EngineSeed(seed)
    /\ pc = "loop"
    /\ ncalls = 0
    /\ move_history = <<>>
    /\ call = NoCall
    /\ gstate = Game
    /\ scan = NoScan
    /\ issued = <<>>

\* the loop's exit and the return
PlayReturn ==
    /\ pc = "loop"
    /\ winner(Deref(arena, tree).state) # NONE
    /\ pc' = "done"
    /\ UNCHANGED <<arena, tree, rng, ncalls, state_history, move_history, call,
                   gstate, scan, issued>>

\* one iteration of: for (i = 0; i < n_rollouts; ++i) tree->ucb_rollout(prng, arena)
PlayRollout ==
    /\ pc = "loop"
    /\ winner(Deref(arena, tree).state) = NONE
    /\ player_turn(Deref(arena, tree).state) = 0
    /\ ncalls < NRollouts
    /\ \E res \in ucb_rollout(arena, rng, tree) :
          /\ arena' = res.arena
          /\ rng' = res.rng
          /\ call' = [node |-> tree, ret |-> res.winner]
    /\ ncalls' = ncalls + 1
    /\ UNCHANGED <<tree, pc, state_history, move_history, gstate, scan, issued>>

\* the loop's tail pushing tree->state before stepping to the child
Advance_state_before_descend(mv) ==
    /\ move_history' = Append(move_history, mv)
    /\ tree' = child(Deref(arena, tree), mv)
    /\ state_history' = Append(state_history, Deref(arena, tree).state)
    /\ ncalls' = 0

\* the loop's tail without tree = tree->child(move)
Advance_without_descend(mv) ==
    /\ move_history' = Append(move_history, mv)
    /\ tree' = tree
    /\ state_history' = Append(state_history, Deref(arena, tree).state)
    /\ ncalls' = 0

\* move_history.push_back(move); tree = tree->child(move);
\* state_history.push_back(tree->state)
Advance(mv) ==
    /\ move_history' = Append(move_history, mv)
    /\ tree' = child(Deref(arena, tree), mv)
    /\ state_history' = Append(state_history,
                               Deref(arena, child(Deref(arena, tree), mv)).state)
    /\ ncalls' = 0

\* move = tree->ucb_move(), after the rollouts
PlayUcbMove ==
    /\ pc = "loop"
    /\ winner(Deref(arena, tree).state) = NONE
    /\ player_turn(Deref(arena, tree).state) = 0
    /\ ncalls = NRollouts
    /\ IF n_unplayed_moves(Deref(arena, tree)) # 0
       THEN /\ pc' = "abort"
            /\ UNCHANGED <<tree, ncalls, state_history, move_history>>
       ELSE \E mv \in ucb_move(arena, Deref(arena, tree)) :
               IF mv = NOMOVE
               THEN /\ pc' = "abort"
                    /\ UNCHANGED <<tree, ncalls, state_history, move_history>>
               ELSE /\ pc' = pc
                    /\ Advance(mv)
    /\ UNCHANGED <<arena, rng, call, gstate, scan, issued>>

\* move = tree->random_move(prng); assert(tree->is_move_explored(move))
PlayRandomMove ==
    /\ pc = "loop"
    /\ winner(Deref(arena, tree).state) = NONE
    /\ player_turn(Deref(arena, tree).state) = 1
    /\ \E m \in random_move(Deref(arena, tree), rng) :
          /\ rng' = m.rng
          /\ IF m.move = NOMOVE \/ ~is_move_explored(Deref(arena, tree), m.move)
             THEN /\ pc' = "abort"
                  /\ move_history' = Append(move_history, m.move)
                  /\ UNCHANGED <<tree, ncalls, state_history>>
             ELSE /\ pc' = pc
                  /\ Advance(m.move)
    /\ UNCHANGED <<arena, call, gstate, scan, issued>>

NextPlay == PlayReturn \/ PlayRollout \/ PlayUcbMove \/ PlayRandomMove

SpecPlay == InitPlay /\ [][NextPlay]_vars

\* a step of the loop is possible: the guards of the four actions
LoopEnabled ==
    /\ pc = "loop"
    /\ LET root == Deref(arena, tree)
       IN  \/ winner(root.state) # NONE
           \/ /\ player_turn(root.state) = 0
              /\ ncalls < NRollouts
              /\ ucb_rollout(arena, rng, tree) # {}
           \/ /\ player_turn(root.state) = 0
              /\ ncalls = NRollouts
              /\ n_unplayed_moves(root) # 0 \/ ucb_move(arena, root) # {}
           \/ /\ player_turn(root.state) = 1
              /\ random_move(root, rng) # {}

\* play_vs_random is one sequential loop: whenever it has a next step, it
\* takes it.  This is weak fairness of NextPlay, written with LoopEnabled for
\* ENABLED <<NextPlay>>_vars (every step of the loop changes vars); the
\* return alone is stated with WF.
SpecPlayFair ==
    /\ SpecPlay
    /\ WF_vars(PlayReturn)
    /\ ([]<>(~LoopEnabled) \/ []<><<NextPlay>>_vars)

---------------------------------------------------------------------------
(* SpecArena: Arena<T, NBlock> on its own, T a small value type.  issued   *)
(* remembers each pointer alloc returned since the last clear(), with the  *)
(* value constructed there.                                                *)

Values == {0, 1}

InitArena ==
    /\ arena = Arena
    /\ issued = <<>>
    /\ ncalls = 0
    /\ tree = nullptr
    /\ rng = 0
    /\ pc = "arena"
    /\ state_history = <<>>
    /\ move_history = <<>>
    /\ call = NoCall
    /\ gstate = Game
    /\ scan = NoScan

ArenaAlloc ==
    /\ pc = "arena"
    /\ ncalls < MaxAllocs
    /\ \E v \in Values :
          LET got == alloc(arena, v)
          IN  /\ arena' = got.arena
              /\ issued' = Append(issued, [ptr |-> got.ptr, val |-> v])
    /\ ncalls' = ncalls + 1
    /\ UNCHANGED <<tree, rng, pc, state_history, move_history, call, gstate, scan>>

ArenaClear ==
    /\ pc = "arena"
    /\ arena.blocks # <<>>
    /\ arena' = clear(arena)
    /\ issued' = <<>>
    /\ UNCHANGED <<tree, rng, pc, ncalls, state_history, move_history, call,
                   gstate, scan>>

NextArena == ArenaAlloc \/ ArenaClear

SpecArena == InitArena /\ [][NextArena]_vars

---------------------------------------------------------------------------
(* SpecGame: a TicTacToe value with any two 9-bit masks, and one           *)
(* random_move scan on it with an arbitrary draw.                          *)

Masks == 0 .. 511

InitGame ==
    /\ \E x \in Masks, o \in Masks : gstate = [xos |-> <<x, o>>, iplayer |-> 0]
    /\ scan = NoScan
    /\ arena = Arena
    /\ issued = <<>>
    /\ ncalls = 0
    /\ tree = nullptr
    /\ rng = 0
    /\ pc = "game"
    /\ state_history = <<>>
    /\ move_history = <<>>
    /\ call = NoCall

\* Node(gstate).random_move(rng)
GameRandomMove ==
    /\ pc = "game"
    /\ scan = NoScan
    /\ n_valid_moves(gstate) > 0
    /\ \E m \in random_move(Node(gstate), rng) : scan' = [move |-> m.move]
    /\ UNCHANGED <<arena, tree, rng, pc, ncalls, state_history, move_history,
                   call, gstate, issued>>

NextGame == GameRandomMove

SpecGame == InitGame /\ [][NextGame]_vars

---------------------------------------------------------------------------
(* SpecScan: the two scans on a node of any board occupancy and any set of *)
(* tried moves among its free cells, with an arbitrary draw.  The node has *)
(* one try and one child for each tried move; the scans read its state and *)
(* its tries.                                                              *)

RECURSIVE WithChildren(_, _, _)
WithChildren(a, p, i) ==
    IF i = n_moves THEN a
    ELSE IF Deref(a, p).tries[i] = 0 THEN WithChildren(a, p, i + 1)
    ELSE LET new == alloc(a, Node(move(Deref(a, p).state, i)))
         IN  WithChildren(Store(new.arena, p,
                                [Deref(new.arena, p) EXCEPT !.children[i] = new.ptr]),
                          p, i + 1)

\* a node on a board with the cells of occ taken, its moves in tried tried once
TriedNode(occ, tried) ==
    [Node([xos |-> <<occ, 0>>, iplayer |-> 0]) EXCEPT
        !.tries = [i \in Moves |-> IF BitAnd(Shl1(i), tried) # 0 THEN 1 ELSE 0],
        !.tot_tries = bitcount(tried)]

InitScan ==
    /\ \E occ \in Masks, tried \in Masks :
          /\ BitAnd(occ, tried) = 0
          /\ LET root == alloc(Arena, TriedNode(occ, tried))
             IN  /\ arena = WithChildren(root.arena, root.ptr, 0)
                 /\ tree = root.ptr
    /\ scan = NoScan
    /\ gstate = Game
    /\ issued = <<>>
    /\ ncalls = 0
    /\ rng = 0
    /\ pc = "scan"
    /\ state_history = <<>>
    /\ move_history = <<>>
    /\ call = NoCall

\* tree->random_move(rng)
ScanMove ==
    /\ pc = "scan"
    /\ scan = NoScan
    /\ \E m \in random_move(Deref(arena, tree), rng) :
          scan' = [move |-> m.move, draw |-> m.draw, unplayed |-> FALSE]
    /\ UNCHANGED <<arena, tree, rng, pc, ncalls, state_history, move_history,
                   call, gstate, issued>>

\* tree->random_unplayed_move(rng)
ScanUnplayedMove ==
    /\ pc = "scan"
    /\ scan = NoScan
    /\ \E m \in random_unplayed_move(Deref(arena, tree), rng) :
          scan' = [move |-> m.move, draw |-> m.draw, unplayed |-> TRUE]
    /\ UNCHANGED <<arena, tree, rng, pc, ncalls, state_history, move_history,
                   call, gstate, issued>>

NextScan == ScanMove \/ ScanUnplayedMove

SpecScan == InitScan /\ [][NextScan]_vars

---------------------------------------------------------------------------
(* Reading the tree.                                                       *)

\* P(p, *p) holds of every live element / of some live element
AllNodes(a, P(_, _)) ==
    \A b \in 1 .. Len(a.blocks) : \A i \in 1 .. Len(a.blocks[b].elems) :
        P(<<a.blocks[b].base, i>>, a.blocks[b].elems[i])

SomeNode(a, P(_, _)) ==
    \E b \in 1 .. Len(a.blocks) : \E i \in 1 .. Len(a.blocks[b].elems) :
        P(<<a.blocks[b].base, i>>, a.blocks[b].elems[i])

\* the node allocated first: the root the caller started from
InitialRoot(a) == <<a.blocks[Len(a.blocks)].base, 1>>

RECURSIVE SumUpTo(_, _)
SumUpTo(f, i) == IF i < 0 THEN 0 ELSE f[i] + SumUpTo(f, i - 1)

SumTries(node) == SumUpTo(node.tries, n_moves - 1)

Explored(node) == {i \in Moves : is_move_explored(node, i)}

Abs(x) == IF x < 0 THEN 0 - x ELSE x

\* following explored children from p: every non-terminal node has exactly
\* one explored move, down to a terminal node
RECURSIVE IsChain(_, _)
IsChain(a, p) ==
    LET node == Deref(a, p)
    IN  IF is_leaf(node) THEN Explored(node) = {}
        ELSE /\ Cardinality(Explored(node)) = 1
             /\ IsChain(a, child(node, CHOOSE i \in Explored(node) : TRUE))

\* the number of nodes on that chain below p
RECURSIVE ChainLength(_, _)
ChainLength(a, p) ==
    LET node == Deref(a, p)
    IN  IF Explored(node) = {} THEN 0
        ELSE 1 + ChainLength(a, child(node, CHOOSE i \in Explored(node) : TRUE))

---------------------------------------------------------------------------
(* Claims.                                                                 *)

\* C1 (as stated): every node of the tree, terminal nodes included, has
\* tot_tries equal to the sum of its tries.
C1_TotTriesIsSumEverywhere ==
    AllNodes(arena, LAMBDA p, node : node.tot_tries = SumTries(node))

\* C1 (amended): every non-terminal node has tot_tries equal to the sum of its
\* tries; a terminal node has every tries[i] = 0, and tot_tries = 1 (the
\* synthetic try) if random_rollout created it, 0 if it is the caller's root.
C1_TotTriesIsSum ==
    AllNodes(arena, LAMBDA p, node :
        IF is_leaf(node)
        THEN /\ SumTries(node) = 0
             /\ node.tot_tries = IF p = InitialRoot(arena) THEN 0 ELSE 1
        ELSE node.tot_tries = SumTries(node))

C1_Witness ==
    /\ pc = "rollouts"
    /\ SomeNode(arena, LAMBDA p, node : ~is_leaf(node) /\ node.tot_tries >= 3)
    /\ SomeNode(arena, LAMBDA p, node : is_leaf(node) /\ node.tot_tries = 1)

\* C2: for every node and move, children[i] is occupied iff tries[i] > 0.
C2_ExploredIffTried ==
    AllNodes(arena, LAMBDA p, node :
        \A i \in Moves : is_move_explored(node, i) <=> node.tries[i] > 0)

C2_Witness ==
    /\ pc = "rollouts"
    /\ SomeNode(arena, LAMBDA p, node :
          n_unplayed_moves(node) > 0 /\ Cardinality(Explored(node)) >= 2)
    /\ SomeNode(arena, LAMBDA p, node : \E i \in Moves : node.tries[i] >= 2)

\* C3: for every node and move, |wins[i]| <= tries[i].
C3_WinsBoundedByTries ==
    AllNodes(arena, LAMBDA p, node :
        \A i \in Moves : Abs(node.wins[i]) <= node.tries[i])

C3_Witness ==
    /\ pc = "rollouts"
    /\ SomeNode(arena, LAMBDA p, node : \E i \in Moves : node.wins[i] = -1)
    /\ SomeNode(arena, LAMBDA p, node : \E i \in Moves : node.wins[i] >= 2)

\* C4: every pointer alloc has returned since the last clear() is still live,
\* still designates the value constructed there, and no two of them coincide:
\* no later alloc, in the same block or after a new block was prepended,
\* relocates or overwrites an earlier element.
C4_PointerStability ==
    \A k \in 1 .. Len(issued) :
        /\ IsLive(arena, issued[k].ptr)
        /\ Deref(arena, issued[k].ptr) = issued[k].val
        /\ \A j \in 1 .. (k - 1) : issued[j].ptr # issued[k].ptr

C4_Witness ==
    /\ pc = "arena"
    /\ Len(arena.blocks) >= 3
    /\ Len(issued) > 2 * NBlock
    /\ issued[1].val # issued[Len(issued)].val

\* C5: in play_vs_random the opponent's move is always explored at the root:
\* the run never aborts on the opponent's turn.
C5_OpponentMoveExplored ==
    ~(pc = "abort" /\ player_turn(Deref(arena, tree).state) = 1)

\* C6: after the first ucb_rollout on a fresh non-terminal root, the explored
\* children below the root form one chain ending at a terminal node, and the
\* nodes the rollout allocated are exactly the nodes of that chain.
C6_FirstRolloutIsOneChain ==
    (pc = "rollouts" /\ ncalls = 1 /\ ~is_leaf(Deref(arena, InitialRoot(arena))))
        => /\ IsChain(arena, InitialRoot(arena))
           /\ ChainLength(arena, InitialRoot(arena)) >= 1
           /\ Cardinality(Pointers(arena)) - 1
                 = ChainLength(arena, InitialRoot(arena))

C6_Witness ==
    /\ pc = "rollouts"
    /\ ncalls = 1
    /\ ~is_leaf(Deref(arena, InitialRoot(arena)))
    /\ ChainLength(arena, InitialRoot(arena)) = 3
    /\ Len(arena.blocks) = 2

\* C7: a ucb_rollout call on a terminal node returns its winner() and changes
\* nothing: no node is allocated and no field of any node changes.
C7_TerminalShortCircuit ==
    [][(pc = "rollouts" /\ ncalls' = ncalls + 1 /\ is_leaf(Deref(arena, tree)))
          => /\ arena' = arena
             /\ call'.node = tree
             /\ call'.ret = winner(Deref(arena, tree).state)]_vars

C7_Witness ==
    /\ pc = "rollouts"
    /\ call.node # nullptr
    /\ call.node # InitialRoot(arena)
    /\ is_leaf(Deref(arena, call.node))
    /\ call.ret = LOSS

\* C9: the number of indices is_valid accepts equals n_valid_moves(), for any
\* two 9-bit masks; and a random_move scan on such a state returns a valid
\* move, never the value past the loop.
C9_ValidCountAgrees ==
    IF scan = NoScan
    THEN Cardinality({i \in Moves : is_valid(gstate, i)}) = n_valid_moves(gstate)
    ELSE scan.move \in Moves /\ is_valid(gstate, scan.move)

C9_Witness ==
    /\ pc = "game"
    /\ scan.move = 8
    /\ n_valid_moves(gstate) = 4
    /\ BitAnd(gstate.xos[1], gstate.xos[2]) # 0

---------------------------------------------------------------------------
(* Comparing the tree before and after a call.                             *)

\* the node at p before the call: a node the call allocated starts as its
\* constructor leaves it
Before(a, a2, p) ==
    IF IsLive(a, p) THEN Deref(a, p) ELSE Node(Deref(a2, p).state)

\* the nodes the call allocated or changed
Touched(a, a2) == {p \in Pointers(a2) : Before(a, a2, p) # Deref(a2, p)}

\* the occupied children slots of q that lead into the set T
ChildrenIn(a2, q, T) == {i \in Moves : Deref(a2, q).children[i] \in T}

\* C11: a ucb_rollout call allocates or changes only nodes of one downward
\* path starting at the node it is called on (the touched nodes are that node
\* and, for each touched node, at most one child of it, every touched node but
\* the first being such a child); every other node keeps tot_tries, tries,
\* wins and children, and no node's state changes.
C11_OnlyThePathChanges ==
    [][LET T == Touched(arena, arena')
       IN  /\ \A p \in Pointers(arena) :
                 /\ IsLive(arena', p)
                 /\ Deref(arena', p).state = Deref(arena, p).state
           /\ T # {} => tree \in T
           /\ \A q \in T : Cardinality(ChildrenIn(arena', q, T)) <= 1
           /\ \A p \in T \ {tree} :
                 \E q \in T : ChildrenIn(arena', q, {p}) # {}]_vars

\* a rollout went through two existing nodes and allocated one, while four
\* other nodes of the tree stayed as they were
C11_Witness ==
    /\ pc = "rollouts"
    /\ call.node = tree
    /\ ncalls >= 4
    /\ Cardinality(Pointers(arena)) >= 7
    /\ SomeNode(arena, LAMBDA p, node :
          ~is_leaf(node) /\ p # tree /\ node.tot_tries >= 2)

\* the valid explored moves of node whose child is a terminal win for the
\* player to move
ProvenWins(a, node) ==
    {i \in Moves :
        /\ is_valid(node.state, i)
        /\ is_move_explored(node, i)
        /\ winner(Deref(a, child(node, i)).state)
              = (IF player_turn(node.state) = 0 THEN WIN ELSE LOSS)}

\* C12: on every node of the tree whose valid moves are all explored and that
\* has a child that is a terminal win for the player to move, ucb_move returns
\* the lowest-indexed move to such a child, whatever the statistics.
C12_ProvenWinFirst ==
    AllNodes(arena, LAMBDA p, node :
        (~is_leaf(node) /\ n_unplayed_moves(node) = 0
                        /\ ProvenWins(arena, node) # {})
            => \A mv \in ucb_move(arena, node) :
                  /\ mv \in ProvenWins(arena, node)
                  /\ \A j \in ProvenWins(arena, node) : mv <= j)

\* rollouts have followed ucb_move to a proven win although another move
\* scores higher; and a node where player 1 moves has had one followed too
C12_Witness ==
    /\ pc = "rollouts"
    /\ SomeNode(arena, LAMBDA p, node :
          /\ ~is_leaf(node) /\ n_unplayed_moves(node) = 0
          /\ \E w \in ProvenWins(arena, node) :
                /\ node.tries[w] >= 2
                /\ \E j \in Moves :
                      /\ is_valid(node.state, j)
                      /\ j \notin ProvenWins(arena, node)
                      /\ ucb(node, j) > ucb(node, w) + 3)
    /\ SomeNode(arena, LAMBDA p, node :
          /\ ~is_leaf(node) /\ n_unplayed_moves(node) = 0
          /\ player_turn(node.state) = 1
          /\ \E w \in ProvenWins(arena, node) : node.tries[w] >= 2)

\* from p down the path the call took, every non-terminal node has recorded
\* one more try of one move (the move taken) with ret added to its wins, and
\* the terminal node at the end has winner() = ret
RECURSIVE Backed(_, _, _, _)
Backed(a, a2, p, ret) ==
    LET old == Before(a, a2, p)
        new == Deref(a2, p)
    IN  IF is_leaf(new) THEN winner(new.state) = ret
        ELSE \E i \in Moves :
                /\ new.tries[i] = old.tries[i] + 1
                /\ new.wins[i] = old.wins[i] + ret
                /\ new.tot_tries = old.tot_tries + 1
                /\ \A j \in Moves \ {i} :
                      new.tries[j] = old.tries[j] /\ new.wins[j] = old.wins[j]
                /\ is_move_explored(new, i)
                /\ Backed(a, a2, child(new, i), ret)

\* the nodes of the subtree below p, p included
RECURSIVE Subtree(_, _)
Subtree(a, p) ==
    {p} \cup UNION {Subtree(a, child(Deref(a, p), i)) : i \in Explored(Deref(a, p))}

\* wins[i] and tries[i] of node agree with what the child behind move i has
\* seen: a terminal child's outcome once per try, otherwise the child's totals
SumsOfOutcomes(a, node) ==
    \A i \in Explored(node) :
        LET c == Deref(a, child(node, i))
        IN  IF is_leaf(c)
            THEN node.wins[i] = node.tries[i] * winner(c.state)
            ELSE /\ node.tries[i] = c.tot_tries
                 /\ node.wins[i] = SumUpTo(c.wins, n_moves - 1)

\* C13: a ucb_rollout call on a non-terminal node returns WIN, TIE or LOSS,
\* the winner() of the terminal node ending the path it took, and at every
\* non-terminal node of that path adds 1 to tries[move] and tot_tries and the
\* returned value to wins[move]; so below the current root every wins[i] is the
\* sum of the terminal outcomes of the rollouts that took move i.
C13_OutcomeBackedUp ==
    /\ [](pc = "rollouts" =>
             \A p \in Subtree(arena, tree) : SumsOfOutcomes(arena, Deref(arena, p)))
    /\ [][(pc = "rollouts" /\ ncalls' = ncalls + 1 /\ ~is_leaf(Deref(arena, tree)))
            => /\ call'.ret \in {WIN, TIE, LOSS}
               /\ Backed(arena, arena', tree, call'.ret)]_vars

\* rollouts from one root have come back with each of the three outcomes
C13_Witness ==
    /\ pc = "rollouts"
    /\ call.node = tree
    /\ call.ret = WIN
    /\ LET root == Deref(arena, tree)
       IN  /\ root.tot_tries >= 4
           /\ \E i \in Moves : root.wins[i] >= 2
           /\ \E i \in Moves : root.wins[i] < 0
           /\ \E i \in Moves : root.tries[i] = 1 /\ root.wins[i] = 0

\* C14: a rollout through a non-terminal node that has k > 0 unexplored valid
\* moves explores exactly one of them (k - 1 remain) and adds no try to a move
\* already explored, so the UCB policy is used only at nodes with k = 0; hence
\* a non-terminal node with m valid moves that rollouts have passed t times
\* has m - t unexplored valid moves while t < m, and none from t = m on.
C14_ExpandBeforeUcb ==
    /\ [](pc = "rollouts" =>
             AllNodes(arena, LAMBDA p, node :
                 ~is_leaf(node) =>
                     n_unplayed_moves(node)
                        = (IF node.tot_tries < n_valid_moves(node.state)
                           THEN n_valid_moves(node.state) - node.tot_tries
                           ELSE 0)))
    /\ [][pc = "rollouts" =>
            \A p \in Touched(arena, arena') :
                LET old == Before(arena, arena', p)
                    new == Deref(arena', p)
                    k == Cardinality({i \in Moves :
                            is_valid(old.state, i) /\ ~is_move_explored(old, i)})
                IN  (~is_leaf(old) /\ k > 0)
                       => /\ n_unplayed_moves(new) = k - 1
                          /\ \A i \in Explored(old) : new.tries[i] = old.tries[i]
                          /\ Cardinality(Explored(new)) = Cardinality(Explored(old)) + 1]_vars

\* the root's three valid moves were explored by its first three rollouts, and
\* a later rollout went by the UCB policy
C14_Witness ==
    /\ pc = "rollouts"
    /\ tree = InitialRoot(arena)
    /\ LET root == Deref(arena, tree)
       IN  /\ n_valid_moves(root.state) = 3
           /\ root.tot_tries = 4
           /\ n_unplayed_moves(root) = 0
    /\ SomeNode(arena, LAMBDA p, node :
          ~is_leaf(node) /\ node.tot_tries = 1 /\ n_unplayed_moves(node) = 1)

\* the driver is about to call tree->ucb_move()
AtUcbMove ==
    /\ pc = "loop"
    /\ winner(Deref(arena, tree).state) = NONE
    /\ player_turn(Deref(arena, tree).state) = 0
    /\ ncalls = NRollouts

\* C15: whenever play_vs_random calls ucb_move, with a budget of at least
\* n_moves() rollouts, the root has no unexplored valid move and every move
\* ucb_move can return is a valid move with a child; the run never stops on
\* an assertion on the MCTS player's turn.
C15_UcbMoveIsSafe ==
    /\ AtUcbMove =>
          /\ n_unplayed_moves(Deref(arena, tree)) = 0
          /\ \A mv \in ucb_move(arena, Deref(arena, tree)) :
                /\ mv \in Moves
                /\ is_valid(Deref(arena, tree).state, mv)
                /\ child(Deref(arena, tree), mv) # nullptr
    /\ pc = "abort" => player_turn(Deref(arena, tree).state) = 1

\* ucb_move is called at a root reached after an opponent move, a node the
\* earlier rollouts had passed once
C15_Witness ==
    /\ AtUcbMove
    /\ Len(move_history) >= 2
    /\ Deref(arena, tree).tot_tries = NRollouts + 1

\* a terminal node has no child and no try or win recorded for any move
NeverGrown(node) ==
    \A i \in Moves :
        node.children[i] = nullptr /\ node.tries[i] = 0 /\ node.wins[i] = 0

\* C16 (as stated): after at least one rollout, every terminal node of the
\* tree has no children, no tries and no wins, and carries the synthetic try
\* tot_tries = 1 of the one random_rollout applied to it.
C16_TerminalNodesOneTry ==
    (pc = "rollouts" /\ ncalls >= 1) =>
        AllNodes(arena, LAMBDA p, node :
            is_leaf(node) => NeverGrown(node) /\ node.tot_tries = 1)

\* C16 (amended): every terminal node has no children, no tries and no wins;
\* one that a rollout created carries tot_tries = 1 from the random_rollout
\* applied at its creation, a terminal root the caller constructed is never
\* passed to random_rollout and keeps tot_tries = 0; and no later call changes
\* a terminal node.
C16_TerminalNodesNeverGrow ==
    /\ [](pc = "rollouts" =>
             AllNodes(arena, LAMBDA p, node :
                 is_leaf(node) =>
                     /\ NeverGrown(node)
                     /\ node.tot_tries = IF p = InitialRoot(arena) THEN 0 ELSE 1))
    /\ [][pc = "rollouts" =>
             AllNodes(arena, LAMBDA p, node :
                 is_leaf(node) => IsLive(arena', p) /\ Deref(arena', p) = node)]_vars

\* rollouts have ended at a terminal node that still has free cells and was
\* reached by several of them
C16_Witness ==
    /\ pc = "rollouts"
    /\ ncalls >= 5
    /\ SomeNode(arena, LAMBDA p, node :
          /\ ~is_leaf(node)
          /\ \E i \in Explored(node) :
                /\ node.tries[i] >= 3
                /\ is_leaf(Deref(arena, child(node, i)))
                /\ n_valid_moves(Deref(arena, child(node, i)).state) > 0)

\* move i counts in the scan made: valid, and untried if the scan was
\* random_unplayed_move
Qualifies(node, i) ==
    /\ BitAnd(Shl1(i), BitOr(node.state.xos[1], node.state.xos[2])) = 0
    /\ scan.unplayed => node.tries[i] = 0

\* C17: a scan made with draw k returns the k-th qualifying move in increasing
\* index (valid for random_move; valid with tries = 0 for
\* random_unplayed_move): the result is a move index, it qualifies, and exactly
\* k qualifying moves lie at or below it, so no two draws give the same move
\* and the value past the loop is never returned.
C17_ScanReturnsKth ==
    scan # NoScan =>
        LET node == Deref(arena, tree)
        IN  /\ scan.move \in Moves
            /\ Qualifies(node, scan.move)
            /\ Cardinality({j \in 0 .. scan.move : Qualifies(node, j)}) = scan.draw

\* random_unplayed_move with draw 2 returned move 7, passing taken cells and
\* tried moves on its way
C17_Witness ==
    /\ pc = "scan"
    /\ scan # NoScan
    /\ scan.unplayed
    /\ scan.draw = 2
    /\ scan.move = 7
    /\ LET node == Deref(arena, tree)
       IN  /\ \E j \in 0 .. 6 : ~is_valid(node.state, j)
           /\ \E j \in 0 .. 6 : is_move_explored(node, j)
           /\ is_valid(node.state, 8)

\* the children slots that hold p
Parents(a, p) ==
    {qi \in Pointers(a) \X Moves : Deref(a, qi[1]).children[qi[2]] = p}

\* C18: between rollouts the nodes of the arena form one tree rooted at the
\* initial root: the root is in no children slot, every other node is in
\* exactly one slot of exactly one node, and an occupied slot children[i] of a
\* node holds a live node whose state is the node's state.move(i), i being a
\* valid move of the node.
C18_OneTree ==
    pc = "rollouts" =>
        /\ Parents(arena, InitialRoot(arena)) = {}
        /\ AllNodes(arena, LAMBDA p, node :
              /\ p # InitialRoot(arena) => Cardinality(Parents(arena, p)) = 1
              /\ \A i \in Explored(node) :
                    /\ IsLive(arena, child(node, i))
                    /\ is_valid(node.state, i)
                    /\ Deref(arena, child(node, i)).state = move(node.state, i))

\* a tree three levels deep, over several blocks, with a node of two children
C18_Witness ==
    /\ pc = "rollouts"
    /\ Len(arena.blocks) >= 3
    /\ SomeNode(arena, LAMBDA p, node :
          p # InitialRoot(arena) /\ Cardinality(Explored(node)) = 2)
    /\ Cardinality(Explored(Deref(arena, InitialRoot(arena)))) = 3

\* C19: the trajectory play_vs_random builds and returns is a legal game: it
\* starts at the initial state, has one state more than moves, each move is
\* valid in the state before it and leads to the state after it, every state
\* but the last is non-terminal, and on return the last state is terminal.
C19_LegalTrajectory ==
    pc \in {"loop", "done"} =>
        /\ state_history[1] = Game
        /\ Len(state_history) = Len(move_history) + 1
        /\ \A k \in 1 .. Len(move_history) :
              /\ move_history[k] \in Moves
              /\ is_valid(state_history[k], move_history[k])
              /\ state_history[k + 1] = move(state_history[k], move_history[k])
              /\ winner(state_history[k]) = NONE
        /\ state_history[Len(state_history)] = Deref(arena, tree).state
        /\ pc = "done" => winner(state_history[Len(state_history)]) # NONE

\* a game returned after five moves or more
C19_Witness ==
    /\ pc = "done"
    /\ Len(move_history) >= 5
    /\ Len(state_history) = Len(move_history) + 1

\* a rollout passes no more non-terminal nodes than its root has free cells,
\* and a move of the game leaves the new root with fewer free cells
BoundedStep ==
    /\ (ncalls' = ncalls + 1) =>
          (Cardinality({p \in Touched(arena, arena') : ~is_leaf(Deref(arena', p))})
              <= n_valid_moves(Deref(arena, tree).state))
    /\ (pc' = "loop" /\ Len(move_history') > Len(move_history)) =>
          (n_valid_moves(Deref(arena', tree').state)
              < n_valid_moves(Deref(arena, tree).state))

\* C20: every ucb_rollout call ends after passing at most as many
\* non-terminal nodes as the state it is called on has free cells; and
\* play_vs_random ends: each move leaves the new root with fewer free cells,
\* and unless an assertion stops it, the loop reaches a terminal state and
\* returns, after at most n_moves() moves.
C20_Terminates ==
    /\ <>(pc = "done" \/ pc = "abort")
    /\ [](/\ Len(move_history) <= n_moves
          /\ pc = "done" => winner(Deref(arena, tree).state) # NONE)
    /\ [][BoundedStep]_vars

\* a run has returned, its last rollout having ended in a win
C20_Witness ==
    /\ pc = "done"
    /\ call.ret = WIN
    /\ Len(move_history) <= n_moves
    /\ winner(Deref(arena, tree).state) # NONE

===========================================================================
